---- MODULE Spec2Model ----
(***************************************************************************)
(* pynalyze: the CodeVisitor traversal of one parsed file, the two         *)
(* get_unused_* resolvers and the reporting done by analyze().             *)
(*                                                                         *)
(* The tree is visited depth first.  `stack` is the chain of nodes whose   *)
(* visit_* handler has run and whose generic_visit is still iterating the  *)
(* children.  A statement child is drawn when it is visited; the children  *)
(* a handler inspects itself (node.func, node.value) are part of the node  *)
(* that is drawn and wait in the frame's `todo`.                           *)
(*                                                                         *)
(* The variables named src* record facts of the tree that was visited      *)
(* (which nodes occurred where); no handler reads them.                    *)
(***************************************************************************)
EXTENDS Integers, Sequences, FiniteSets, TLC

\* ---------------------------------------------------------------- bounds
\* nodes drawn in one file: a drawn Call or Attribute brings its callee / object,
\* an import statement counts once for each of its bindings
MaxNodes == 3
\* depth of nested visits the interpreter allows before RecursionError
RecursionLimit == 5

None == "None"
Path == "p.py"
Ids == {"f", "g"}
FuncNames == {"f"}
NameIds == Ids \cup {"self"}
ClassNames == {"C", "D"}
FromModules == {"m"}

\* ------------------------------------------------------------- AST nodes
Aliases == [name : Ids, asname : {None, "g"}]
StarAlias == [name |-> "*", asname |-> None]
\* node.names: one binding or two
AliasLists == {<<a>> : a \in Aliases} \cup (Aliases \X Aliases)

NameNodes == [kind : {"Name"}, id : NameIds]
OtherExpr == [kind |-> "Other"]
AttributeNodes == [kind : {"Attribute"}, value : NameNodes \cup {OtherExpr}, attr : Ids]
CallNodes ==
    [kind : {"Call"}, func : [kind : {"Name"}, id : Ids] \cup AttributeNodes \cup {OtherExpr}]

BodyKinds == {"Module", "FunctionDef", "ClassDef", "Other"}
StmtKinds == {"Import", "ImportFrom", "FunctionDef", "ClassDef", "Other"}
ExprKinds == {"Name", "Attribute", "Call"}

\* the node kinds generic_visit can meet below a node of kind k
ChildKinds(k) ==
    IF k \in BodyKinds THEN StmtKinds \cup ExprKinds
    ELSE IF k = "Call" THEN ExprKinds
    ELSE {}

\* the children a node carries: Call.func, Attribute.value
ExprChildren(node) ==
    IF node.kind = "Call" THEN
        (IF node.func.kind = "Other" THEN <<>> ELSE <<node.func>>)
    ELSE IF node.kind = "Attribute" THEN
        (IF node.value.kind = "Other" THEN <<>> ELSE <<node.value>>)
    ELSE <<>>

\* ------------------------------------------------------------ Python dict
\* a dict keeps its keys in insertion order; assigning to a present key
\* replaces the value in place
Keys(d) == {d[i].key : i \in 1..Len(d)}
Get(d, k) == d[CHOOSE i \in 1..Len(d) : d[i].key = k].val
DictSet(d, k, v) ==
    IF k \in Keys(d)
    THEN [i \in 1..Len(d) |-> IF d[i].key = k THEN [key |-> k, val |-> v] ELSE d[i]]
    ELSE Append(d, [key |-> k, val |-> v])

ImportInfo(module, lineno, is_from) ==
    [module |-> module, lineno |-> lineno, is_from |-> is_from]
FunctionInfo(name, lineno) == [name |-> name, lineno |-> lineno]

VARIABLES
    pc,                 \* "start", "visit", "report", "done"
    stack,              \* frames of the visits in progress, Module first
    line,               \* line of the last statement visited
    nodes,              \* nodes drawn so far
    defined_funcs, called_funcs, decorated_funcs,
    imports, import_froms, used_names,
    in_class, current_class,
    quiet, no_imports, no_functions,   \* the options of analyze, None until it reads them
    output,             \* what was printed, in order
    exit_status,        \* None while running, then 0 or 1
    error,              \* the exception analyze caught, or None
    srcRetained,        \* import bindings of the tree, the last one of each local name, in source order
    srcNames,           \* ids of the Name nodes of the tree
    srcCalls,           \* ids of the bare-name callees of the tree
    srcSelfAttrs,       \* the Attribute nodes whose object is Name self: attr, position
    srcFuncs            \* FunctionDef nodes of the tree with their position

visitor == <<defined_funcs, called_funcs, decorated_funcs, imports, import_froms,
             used_names, in_class, current_class>>
args == <<quiet, no_imports, no_functions>>
io == <<output, exit_status, error>>
src == <<srcRetained, srcNames, srcCalls, srcSelfAttrs, srcFuncs>>
vars == <<pc, stack, line, nodes, visitor, args, io, src>>

\* name is the class name of a ClassDef node, None for the other kinds
Frame(kind, name, todo) ==
    [kind |-> kind, name |-> name, todo |-> todo,
     old_class |-> current_class, old_in_class |-> in_class]

Top == stack[Len(stack)]

\* facts of the position in the tree, read off the chain of open nodes
HasAncestor(s, k) == \E i \in 1..Len(s) : s[i].kind = k

Init ==
    /\ pc = "start"
    /\ stack = <<>>
    /\ line = 0
    /\ nodes = 0
    /\ defined_funcs = <<>>
    /\ called_funcs = {}
    /\ decorated_funcs = {}
    /\ imports = <<>>
    /\ import_froms = <<>>
    /\ used_names = {}
    /\ in_class = FALSE
    /\ current_class = None
    /\ quiet = None
    /\ no_imports = None
    /\ no_functions = None
    /\ output = <<>>
    /\ exit_status = None
    /\ error = None
    /\ srcRetained = <<>>
    /\ srcNames = {}
    /\ srcCalls = {}
    /\ srcSelfAttrs = {}
    /\ srcFuncs = {}

\* ------------------------------------------------------------ traversal
\* `node` is the next child generic_visit hands to visit()
Arrives(node) ==
    /\ pc = "visit"
    /\ Len(stack) < RecursionLimit
    /\ IF Top.todo # <<>>
       THEN node = Head(Top.todo)
       ELSE /\ nodes < MaxNodes
            /\ node.kind \in ChildKinds(Top.kind)

\* the open node has handed over its next child
Advanced ==
    IF Top.todo # <<>>
    THEN [stack EXCEPT ![Len(stack)].todo = Tail(@)]
    ELSE stack

Drawn == IF Top.todo # <<>> THEN nodes ELSE nodes + 1

LocalName(alias) == IF alias.asname # None THEN alias.asname ELSE alias.name


\* ------------------------------------------------- facts of the tree (src*)
\* one more binding of `name` in source order: it replaces the binding the
\* name had; otherLine tells that the name was also bound on another line
Redeclared(r, name, info) ==
    LET other == \E i \in 1..Len(r) :
                    /\ r[i].name = name
                    /\ (r[i].info.lineno # info.lineno \/ r[i].otherLine)
    IN Append(SelectSeq(r, LAMBDA e : e.name # name),
              [name |-> name, info |-> info, otherLine |-> other])

RECURSIVE SrcImport(_, _, _)
SrcImport(r, names, lineno) ==
    IF names = <<>> THEN r
    ELSE SrcImport(Redeclared(r, LocalName(Head(names)),
                              ImportInfo(Head(names).name, lineno, FALSE)),
                   Tail(names), lineno)

RECURSIVE SrcImportFrom(_, _, _, _)
SrcImportFrom(r, module, names, lineno) ==
    IF names = <<>> THEN r
    ELSE SrcImportFrom(
            IF Head(names).name = "*" THEN r
            ELSE Redeclared(r, LocalName(Head(names)),
                            ImportInfo(IF module = None THEN "" ELSE module, lineno, TRUE)),
            module, Tail(names), lineno)

SrcSelfAttr(attr) == [attr |-> attr, inClass |-> HasAncestor(stack, "ClassDef")]

SrcFunc(name, lineno, decorated) ==
    [name |-> name, lineno |-> lineno, decorated |-> decorated,
     inClass |-> HasAncestor(stack, "ClassDef"),
     nested |-> HasAncestor(stack, "FunctionDef")]

\* ------------------------------------------------------ CodeVisitor.visit_*
\* the loop of visit_Import over node.names
RECURSIVE ImportBindings(_, _, _)
ImportBindings(d, names, lineno) ==
    IF names = <<>> THEN d
    ELSE ImportBindings(
            DictSet(d, LocalName(Head(names)),
                    ImportInfo(Head(names).name, lineno, FALSE)),
            Tail(names), lineno)

visit_Import(names, lineno) ==
    /\ Arrives([kind |-> "Import"])
    /\ lineno >= 1
    /\ nodes + Len(names) <= MaxNodes
    /\ imports' = ImportBindings(imports, names, lineno)
    /\ stack' = Advanced
    /\ nodes' = nodes + Len(names)
    /\ line' = lineno
    /\ srcRetained' = SrcImport(srcRetained, names, lineno)
    /\ UNCHANGED <<pc, defined_funcs, called_funcs, decorated_funcs, import_froms,
                   used_names, in_class, current_class, args, io,
                   srcNames, srcCalls, srcSelfAttrs, srcFuncs>>

\* variant: the binding * is recorded like any other
RECURSIVE ImportFromBindings_StarBound(_, _, _, _)
ImportFromBindings_StarBound(d, module, names, lineno) ==
    IF names = <<>> THEN d
    ELSE ImportFromBindings_StarBound(
            DictSet(d, LocalName(Head(names)), ImportInfo(module, lineno, TRUE)),
            module, Tail(names), lineno)

\* the loop of visit_ImportFrom over node.names
RECURSIVE ImportFromBindings(_, _, _, _)
ImportFromBindings(d, module, names, lineno) ==
    IF names = <<>> THEN d
    ELSE ImportFromBindings(
            IF LocalName(Head(names)) # "*"
            THEN DictSet(d, LocalName(Head(names)), ImportInfo(module, lineno, TRUE))
            ELSE d,
            module, Tail(names), lineno)

visit_ImportFrom(node_module, names, lineno) ==
    /\ Arrives([kind |-> "ImportFrom"])
    /\ lineno >= 1
    /\ nodes + Len(names) <= MaxNodes
    /\ LET module == IF node_module # None THEN node_module ELSE ""
       IN import_froms' = ImportFromBindings(import_froms, module, names, lineno)
    /\ stack' = Advanced
    /\ nodes' = nodes + Len(names)
    /\ line' = lineno
    /\ srcRetained' = SrcImportFrom(srcRetained, node_module, names, lineno)
    /\ UNCHANGED <<pc, defined_funcs, called_funcs, decorated_funcs, imports,
                   used_names, in_class, current_class, args, io,
                   srcNames, srcCalls, srcSelfAttrs, srcFuncs>>

visit_Name(node) ==
    /\ Arrives(node)
    /\ node.kind = "Name"
    /\ used_names' = used_names \cup {node.id}
    /\ stack' = Advanced
    /\ nodes' = Drawn
    /\ srcNames' = srcNames \cup {node.id}
    /\ UNCHANGED <<pc, line, defined_funcs, called_funcs, decorated_funcs, imports,
                   import_froms, in_class, current_class, args, io,
                   srcRetained, srcCalls, srcSelfAttrs, srcFuncs>>

\* variant: the in_class test is missing
FunctionDefRecorded_InClassToo(defs, inclass, name, decorated, lineno) ==
    IF decorated THEN defs
    ELSE DictSet(defs, name, FunctionInfo(name, lineno))

\* variant: the decorator_list test is missing
FunctionDefRecorded_DecoratedToo(defs, inclass, name, decorated, lineno) ==
    IF inclass THEN defs
    ELSE DictSet(defs, name, FunctionInfo(name, lineno))

\* defined_funcs after visit_FunctionDef
FunctionDefRecorded(defs, inclass, name, decorated, lineno) ==
    IF inclass THEN defs
    ELSE IF decorated THEN defs
    ELSE DictSet(defs, name, FunctionInfo(name, lineno))

\* decorated_funcs after visit_FunctionDef
FunctionDefDecorated(decos, inclass, name, decorated) ==
    IF inclass THEN decos
    ELSE IF decorated THEN decos \cup {name}
    ELSE decos

visit_FunctionDef(name, decorated) ==
    /\ Arrives([kind |-> "FunctionDef"])
    /\ defined_funcs' = FunctionDefRecorded(defined_funcs, in_class, name, decorated, line + 1)
    /\ decorated_funcs' = FunctionDefDecorated(decorated_funcs, in_class, name, decorated)
    /\ stack' = Append(Advanced, Frame("FunctionDef", None, <<>>))
    /\ nodes' = Drawn
    /\ line' = line + 1
    /\ srcFuncs' = srcFuncs \cup {SrcFunc(name, line + 1, decorated)}
    /\ UNCHANGED <<pc, called_funcs, imports, import_froms, used_names, in_class,
                   current_class, args, io, srcRetained, srcNames, srcCalls, srcSelfAttrs>>

\* called_funcs after visit_Call
CallTargets(called, node) ==
    IF node.func.kind = "Name" THEN called \cup {node.func.id}
    ELSE IF node.func.kind = "Attribute" /\ node.func.value.kind = "Name"
         THEN (IF node.func.value.id = "self" THEN called \cup {node.func.attr} ELSE called)
    ELSE called

visit_Call(node) ==
    /\ Arrives(node)
    /\ node.kind = "Call"
    /\ called_funcs' = CallTargets(called_funcs, node)
    /\ stack' = Append(Advanced, Frame("Call", None, ExprChildren(node)))
    /\ nodes' = Drawn
    /\ srcCalls' = IF node.func.kind = "Name" THEN srcCalls \cup {node.func.id} ELSE srcCalls
    /\ UNCHANGED <<pc, line, defined_funcs, decorated_funcs, imports, import_froms,
                   used_names, in_class, current_class, args, io,
                   srcRetained, srcNames, srcSelfAttrs, srcFuncs>>

\* variant: an attribute of self is not taken as a call
AttributeCalled_SelfIgnored(called, node) == called

\* called_funcs after visit_Attribute
AttributeCalled(called, node) ==
    IF node.value.kind = "Name"
    THEN (IF node.value.id = "self" THEN called \cup {node.attr} ELSE called)
    ELSE called

\* used_names after visit_Attribute
AttributeUsed(used, node) ==
    IF node.value.kind = "Name" THEN used \cup {node.value.id} ELSE used

visit_Attribute(node) ==
    /\ Arrives(node)
    /\ node.kind = "Attribute"
    /\ called_funcs' = AttributeCalled(called_funcs, node)
    /\ used_names' = AttributeUsed(used_names, node)
    /\ stack' = Append(Advanced, Frame("Attribute", None, ExprChildren(node)))
    /\ nodes' = Drawn
    /\ srcSelfAttrs' = IF node.value.kind = "Name" /\ node.value.id = "self"
                       THEN srcSelfAttrs \cup {SrcSelfAttr(node.attr)} ELSE srcSelfAttrs
    /\ UNCHANGED <<pc, line, defined_funcs, decorated_funcs, imports, import_froms,
                   in_class, current_class, args, io,
                   srcRetained, srcNames, srcCalls, srcFuncs>>

\* visit_ClassDef up to its call of generic_visit; Frame keeps old_class, old_in_class
visit_ClassDef(name) ==
    /\ Arrives([kind |-> "ClassDef"])
    /\ stack' = Append(Advanced, Frame("ClassDef", name, <<>>))
    /\ current_class' = name
    /\ in_class' = TRUE
    /\ nodes' = Drawn
    /\ line' = line + 1
    /\ UNCHANGED <<pc, defined_funcs, called_funcs, decorated_funcs, imports,
                   import_froms, used_names, args, io, src>>

\* a compound statement without a handler of its own (If, While, With, Try,
\* AsyncFunctionDef, ...): NodeVisitor.visit falls back to generic_visit
generic_visit_Other ==
    /\ Arrives([kind |-> "Other"])
    /\ stack' = Append(Advanced, Frame("Other", None, <<>>))
    /\ nodes' = Drawn
    /\ line' = line + 1
    /\ UNCHANGED <<pc, visitor, args, io, src>>

\* the class context after the visit of the node of frame fr has returned:
\* the two assignments that follow generic_visit in visit_ClassDef
ClassContextAfter(fr, ctx) ==
    IF fr.kind = "ClassDef"
    THEN [current_class |-> fr.old_class, in_class |-> fr.old_in_class]
    ELSE ctx

\* generic_visit has no child left: the handler of the open node returns
Return ==
    /\ pc = "visit"
    /\ Top.todo = <<>>
    /\ LET ctx == ClassContextAfter(Top, [current_class |-> current_class,
                                          in_class |-> in_class])
       IN /\ current_class' = ctx.current_class
          /\ in_class' = ctx.in_class
    /\ stack' = SubSeq(stack, 1, Len(stack) - 1)
    /\ pc' = IF Len(stack) = 1 THEN "report" ELSE "visit"
    /\ UNCHANGED <<line, nodes, defined_funcs, called_funcs, decorated_funcs, imports,
                   import_froms, used_names, args, io, src>>


\* ------------------------------------------------------------ resolvers
\* one loop of get_unused_imports: for name, info in d.items()
RECURSIVE CollectUnused(_, _, _)
CollectUnused(unused, d, used) ==
    IF d = <<>> THEN unused
    ELSE CollectUnused(
            IF Head(d).key \notin used
            THEN DictSet(unused, Head(d).key, Head(d).val)
            ELSE unused,
            Tail(d), used)

get_unused_imports ==
    CollectUnused(CollectUnused(<<>>, imports, used_names), import_froms, used_names)

\* variant: decorated_funcs is not consulted
get_unused_functions_NoDecoratedCheck ==
    SelectSeq(defined_funcs, LAMBDA e : e.key \notin called_funcs)

get_unused_functions ==
    SelectSeq(defined_funcs,
              LAMBDA e : e.key \notin called_funcs /\ e.key \notin decorated_funcs)

\* sorted(items, key=lambda x: x[1].lineno): a stable sort
InsertStable(s, e) ==
    LET k == Cardinality({i \in 1..Len(s) : s[i].val.lineno <= e.val.lineno})
    IN SubSeq(s, 1, k) \o <<e>> \o SubSeq(s, k + 1, Len(s))

RECURSIVE SortedByLineno(_)
SortedByLineno(items) ==
    IF items = <<>> THEN <<>>
    ELSE InsertStable(SortedByLineno(SubSeq(items, 1, Len(items) - 1)), items[Len(items)])

\* ------------------------------------------------------------- analyze
\* one printed line; n is a line number or a count, detail the remaining text
Printed(kind, n, name, detail) ==
    [kind |-> kind, path |-> Path, n |-> n, name |-> name, detail |-> detail]

\* print(f"func:{python_file}:{info.lineno}:{name}") / the console line
FuncLine(q, e) ==
    IF q THEN Printed("func", e.val.lineno, e.key, <<>>)
    ELSE Printed("- function", e.val.lineno, e.key, <<>>)

\* print(f"import:{python_file}:{info.lineno}:{name}") / the console line
ImportLine(q, e) ==
    IF q THEN Printed("import", e.val.lineno, e.key, <<>>)
    ELSE Printed("- import", e.val.lineno, e.key,
                 IF e.val.is_from THEN <<"from", e.val.module>> ELSE <<e.val.module>>)

\* the block "Handle unused functions" of analyze
ReportFunctions(q, nf, unused_funcs) ==
    IF nf \/ unused_funcs = <<>> THEN <<>>
    ELSE (IF q THEN <<>> ELSE <<Printed("Found unused functions", Len(unused_funcs), None, <<>>)>>)
         \o [i \in 1..Len(unused_funcs) |-> FuncLine(q, SortedByLineno(unused_funcs)[i])]

\* variant: --no-imports is not consulted
ReportImports_ToggleIgnored(q, ni, unused_imports) ==
    IF unused_imports = <<>> THEN <<>>
    ELSE [i \in 1..Len(unused_imports) |-> ImportLine(q, SortedByLineno(unused_imports)[i])]

\* the block "Handle unused imports" of analyze
ReportImports(q, ni, unused_imports) ==
    IF ni \/ unused_imports = <<>> THEN <<>>
    ELSE (IF q THEN <<>> ELSE <<Printed("Found unused imports", Len(unused_imports), None, <<>>)>>)
         \o [i \in 1..Len(unused_imports) |-> ImportLine(q, SortedByLineno(unused_imports)[i])]

\* has_issues as analyze computes it
HasIssues(nf, ni, unused_funcs, unused_imports) ==
    \/ ~nf /\ unused_funcs # <<>>
    \/ ~ni /\ unused_imports # <<>>

\* the exit status of a run of analyze that raised nothing
StatusOfReport(has_issues) == 0

\* open() and ast.parse(): the file is missing, does not parse, or yields a tree
analyze_open ==
    /\ pc = "start"
    /\ \/ /\ pc' = "visit"
          /\ stack' = <<Frame("Module", None, <<>>)>>
          /\ UNCHANGED io
       \/ /\ pc' = "done"
          /\ error' = "FileNotFoundError"
          /\ output' = Append(output, Printed("Error: File not found", 0, None, <<>>))
          /\ exit_status' = 1
          /\ UNCHANGED stack
       \/ /\ pc' = "done"
          /\ error' = "SyntaxError"
          /\ output' = Append(output, Printed("Error analyzing file", 0, None, <<"SyntaxError">>))
          /\ exit_status' = 1
          /\ UNCHANGED stack
    /\ UNCHANGED <<line, nodes, visitor, args, src>>

\* generic_visit of the open node has one more child to visit
ChildLeft ==
    IF Top.todo # <<>> THEN TRUE
    ELSE nodes < MaxNodes /\ ChildKinds(Top.kind) # {}

\* visit() of the next child exceeds the recursion limit: the RecursionError
\* leaves every open handler at once and analyze's `except Exception` takes it
analyze_RecursionError ==
    /\ pc = "visit"
    /\ Len(stack) >= RecursionLimit
    /\ ChildLeft
    /\ pc' = "done"
    /\ stack' = <<>>
    /\ error' = "RecursionError"
    /\ output' = Append(output, Printed("Error analyzing file", 0, None, <<"RecursionError">>))
    /\ exit_status' = 1
    /\ UNCHANGED <<line, nodes, visitor, args, src>>

\* analyze after visitor.visit(tree) returned; nothing reads the options
\* --quiet, --no-imports, --no-functions before this point
analyze_report(q, ni, nf) ==
    /\ pc = "report"
    /\ quiet' = q
    /\ no_imports' = ni
    /\ no_functions' = nf
    /\ LET unused_funcs == get_unused_functions
           unused_imports == get_unused_imports
           has_issues == HasIssues(nf, ni, unused_funcs, unused_imports)
       IN /\ output' = output
                \o ReportFunctions(q, nf, unused_funcs)
                \o ReportImports(q, ni, unused_imports)
                \o (IF ~has_issues /\ ~q
                    THEN <<Printed("No unused functions or imports found", 0, None, <<>>)>>
                    ELSE <<>>)
          /\ exit_status' = StatusOfReport(has_issues)
    /\ pc' = "done"
    /\ UNCHANGED <<stack, line, nodes, visitor, error, src>>

Next ==
    \/ analyze_open
    \/ \E names \in AliasLists, lineno \in {line, line + 1} : visit_Import(names, lineno)
    \/ \E m \in FromModules, names \in AliasLists \cup {<<StarAlias>>},
          lineno \in {line, line + 1} : visit_ImportFrom(m, names, lineno)
    \/ \E node \in NameNodes : visit_Name(node)
    \/ \E name \in FuncNames, decorated \in BOOLEAN : visit_FunctionDef(name, decorated)
    \/ \E node \in CallNodes : visit_Call(node)
    \/ \E node \in AttributeNodes : visit_Attribute(node)
    \/ \E name \in ClassNames : visit_ClassDef(name)
    \/ generic_visit_Other
    \/ Return
    \/ analyze_RecursionError
    \/ \E q \in BOOLEAN, ni \in BOOLEAN, nf \in BOOLEAN : analyze_report(q, ni, nf)

Spec == Init /\ [][Next]_vars


\* ================================================================ claims
Items(d) == {d[i] : i \in 1..Len(d)}

\* visitor.visit(tree) has returned
Traversed == pc \in {"report", "done"} /\ error = None
\* analyze has returned without an exception
Reported == pc = "done" /\ error = None

FindingKinds == {"func", "import", "- function", "- import"}
FindingsPrinted == \E i \in 1..Len(output) : output[i].kind \in FindingKinds

\* attribute names reached through Name self
SrcSelfAttrNames == {a.attr : a \in srcSelfAttrs}

\* local names bound by the non-wildcard import bindings of the tree
SrcBoundNames == {srcRetained[i].name : i \in 1..Len(srcRetained)}

\* function definitions of the tree by position
SrcDefs(decorated, inClass) ==
    {r \in srcFuncs : r.decorated = decorated /\ r.inClass = inClass}

\* the record e of defined_funcs was made by the definition r
MadeBy(e, r) == r.name = e.key /\ r.name = e.val.name /\ r.lineno = e.val.lineno

\* C1: analyze exits with status 0 only if it printed no finding and no
\* error happened; a finding in an enabled category or a FileNotFound /
\* Syntax error gives a non-zero status.
C1_ExitStatus ==
    pc = "done" /\ exit_status = 0 => error = None /\ ~FindingsPrinted

\* C2: after the traversal get_unused_imports holds a name exactly when a
\* non-wildcard import binding of the tree binds it as local name and no Name
\* node of the tree has it as id.
C2_UnusedImports ==
    Traversed => Keys(get_unused_imports) = {n \in SrcBoundNames : n \notin srcNames}

C2_Witness ==
    /\ Reported
    /\ SrcBoundNames = {"f", "g"}
    /\ "f" \in srcNames /\ "g" \notin srcNames
    /\ Keys(get_unused_imports) = {"g"}
    /\ "f" \in called_funcs

\* C3: after the traversal called_funcs is the set of the bare-name callees
\* together with the attribute names reached through Name self, and
\* get_unused_functions holds exactly the records of defined_funcs whose name
\* is in neither that set nor decorated_funcs.
C3_UnusedFunctions ==
    Traversed =>
        /\ called_funcs = srcCalls \cup SrcSelfAttrNames
        /\ Items(get_unused_functions) \subseteq Items(defined_funcs)
        /\ Keys(get_unused_functions) =
              Keys(defined_funcs) \ (srcCalls \cup SrcSelfAttrNames \cup decorated_funcs)

\* def f at module level, self.f() called inside a class and f never
\* called by bare name: f is not reported
C3_Witness ==
    /\ Reported
    /\ \E r \in SrcDefs(FALSE, FALSE) : r.name = "f" /\ ~r.nested
    /\ [attr |-> "f", inClass |-> TRUE] \in srcSelfAttrs
    /\ "f" \in called_funcs /\ "f" \notin srcCalls
    /\ "f" \in Keys(defined_funcs)
    /\ get_unused_functions = <<>>

\* C4: a name that some decorated function definition outside every class
\* body carries is never a key of get_unused_functions.
C4_DecoratedExempt ==
    Traversed =>
        \A r \in SrcDefs(TRUE, FALSE) : r.name \notin Keys(get_unused_functions)

\* f is defined decorated and then undecorated, and is never called
C4_Witness ==
    /\ Reported
    /\ \E r \in SrcDefs(TRUE, FALSE) : \E u \in SrcDefs(FALSE, FALSE) :
          r.name = "f" /\ u.name = "f" /\ r.lineno < u.lineno
    /\ "f" \in Keys(defined_funcs)
    /\ "f" \notin called_funcs
    /\ get_unused_functions = <<>>

\* C5: visiting a function definition that has a ClassDef ancestor changes
\* neither defined_funcs nor decorated_funcs, and every entry of
\* get_unused_functions was made by a definition without a ClassDef ancestor.
C5_MethodsNotRecorded ==
    /\ [][(/\ pc = "visit"
           /\ Len(stack') = Len(stack) + 1
           /\ stack'[Len(stack')].kind = "FunctionDef"
           /\ HasAncestor(stack, "ClassDef"))
          => UNCHANGED <<defined_funcs, decorated_funcs>>]_vars
    /\ [](\A e \in Items(get_unused_functions) :
             \E r \in srcFuncs : MadeBy(e, r) /\ ~r.inClass)

\* a class holds a decorated method and a function nested in a method;
\* nothing was recorded
C5_Witness ==
    /\ Reported
    /\ \E r \in SrcDefs(TRUE, TRUE) : ~r.nested
    /\ \E r \in SrcDefs(FALSE, TRUE) : r.nested
    /\ defined_funcs = <<>>
    /\ decorated_funcs = {}

\* C6: for a local name bound by import bindings on different lines,
\* get_unused_imports gives the line, module and kind of the last of its
\* bindings.
C6_LaterDeclaration ==
    Traversed =>
        \A r \in Items(srcRetained) :
            r.otherLine /\ r.name \in Keys(get_unused_imports)
                => Get(get_unused_imports, r.name) = r.info

Ascending(ls) == \A i \in 1..Len(ls) : \A j \in 1..Len(ls) : i < j => ls[i].n <= ls[j].n
NamesOf(ls) == [i \in 1..Len(ls) |-> ls[i].name]
FuncLines == SelectSeq(output, LAMBDA l : l.kind \in {"func", "- function"})
ImportLines == SelectSeq(output, LAMBDA l : l.kind \in {"import", "- import"})

\* C7: each of the two lists is printed in ascending order of line, and
\* imports of one line in the order of their (retained) declarations in the
\* source.
C7_Order ==
    Reported =>
        /\ Ascending(FuncLines)
        /\ Ascending(ImportLines)
        /\ ~no_imports =>
              NamesOf(ImportLines) =
                 NamesOf(SelectSeq(srcRetained, LAMBDA r : r.name \notin srcNames))

\* C8: a quiet run that raised nothing prints one func line per entry of
\* get_unused_functions unless --no-functions, one import line per entry of
\* get_unused_imports unless --no-imports, and nothing else.
C8_QuietOutput ==
    Reported /\ quiet = TRUE =>
        LET F == IF no_functions THEN {}
                 ELSE {Printed("func", e.val.lineno, e.key, <<>>) :
                          e \in Items(get_unused_functions)}
            I == IF no_imports THEN {}
                 ELSE {Printed("import", e.val.lineno, e.key, <<>>) :
                          e \in Items(get_unused_imports)}
        IN /\ Items(output) = F \cup I
           /\ Len(output) = Cardinality(F) + Cardinality(I)

\* unused functions and unused imports exist, imports are switched off
C8_Witness ==
    /\ Reported /\ quiet = TRUE
    /\ no_imports = TRUE /\ no_functions = FALSE
    /\ get_unused_functions # <<>>
    /\ Len(get_unused_imports) = 2
    /\ Len(output) = Len(get_unused_functions)

\* C9 as claimed: every record of defined_funcs was made by an undecorated
\* definition at module level (no FunctionDef and no ClassDef ancestor).
C9_TopLevelOnly ==
    \A e \in Items(defined_funcs) :
        \E r \in SrcDefs(FALSE, FALSE) : MadeBy(e, r) /\ ~r.nested

\* C9 as the code has it: every record of defined_funcs was made by an
\* undecorated definition without a ClassDef ancestor, and every such
\* definition, nested in a function or not, has a record under its name and
\* is reported when the name is neither called nor decorated.
C9_OutsideClassOnly ==
    /\ \A e \in Items(defined_funcs) : \E r \in SrcDefs(FALSE, FALSE) : MadeBy(e, r)
    /\ \A r \in SrcDefs(FALSE, FALSE) :
          /\ r.name \in Keys(defined_funcs)
          /\ Traversed /\ r.name \notin called_funcs \cup decorated_funcs
                => r.name \in Keys(get_unused_functions)

\* a function nested in a module-level function is recorded and reported
C9_Witness ==
    /\ Reported
    /\ \E r \in SrcDefs(FALSE, FALSE) :
          /\ r.nested
          /\ \E e \in Items(get_unused_functions) : MadeBy(e, r)

\* the name of the innermost open ClassDef, None outside every class
RECURSIVE EnclosingClass(_)
EnclosingClass(s) ==
    IF s = <<>> THEN None
    ELSE IF s[Len(s)].kind = "ClassDef" THEN s[Len(s)].name
    ELSE EnclosingClass(SubSeq(s, 1, Len(s) - 1))

\* C10: the class context is that of the ClassDef ancestors of the node
\* being visited, and every visit_ClassDef that has ended, by return or by an
\* exception, has left the context it found.
C10_ClassContext ==
    /\ pc = "visit" =>
          /\ in_class = HasAncestor(stack, "ClassDef")
          /\ current_class = EnclosingClass(stack)
    /\ pc \in {"report", "done"} => in_class = FALSE /\ current_class = None

====
